---- MODULE Spec2Model ----
(***************************************************************************)
(* Tilengine: the blend look-up tables of src_lib/Tables.c and the bitmap  *)
(* objects of src_lib/Bitmap.c.                                            *)
(*                                                                         *)
(* The heap is a pool of block addresses.  A table buffer is stored at the *)
(* offsets (a<<8)+b of the sampled intensities Levels; the specification   *)
(* SpecLut runs the body of the build loop for every a, b of 0..255.       *)
(*                                                                         *)
(* SpecBitmap follows bitmaps, palettes and their ownership, SpecAccess    *)
(* every function of Bitmap.c, SpecPixels the pixel pointers and the       *)
(* callers that write through them, and SpecLayout the pitch, size and     *)
(* pixel offset arithmetic for every (width, height, bpp) of its bounds.   *)
(***************************************************************************)
EXTENDS Integers, Sequences, FiniteSets, TLC

VARIABLES
    instances,      \* Tables.c: static int instances
    blend_tables,   \* Tables.c: static uint8_t* _blend_tables[MAX_BLEND]
    heap,           \* malloc/free: address -> "free" | "alloc"
    mem,            \* contents of the blocks at the sampled offsets
    result,         \* what the last call returned
    ub,             \* "none", or the outcome of an invalid free()
    oom,            \* TRUE once a malloc() has returned NULL
    teardowns,      \* how many times the free loop has run, up to MaxTeardowns
    arg,            \* SpecLut: the loop indices a, b; SpecLayout: the bitmap
    out,            \* SpecLut, SpecLayout: what one pass of the code computed
    pc,             \* SpecThreads: where each thread is in its call
    reg,            \* SpecThreads: the value of instances a thread holds
    held,           \* SpecThreads: the thread's Activate has returned true
    ret,            \* SpecThreads: what the thread's last call returned
    builds,         \* SpecThreads: build loops finished since the last free
    objs,           \* SpecBitmap: the object blocks, by address
    last_error,     \* SpecBitmap: the process-wide last error
    last,           \* SpecBitmap: the last call, its arguments and its result
    freed,          \* SpecBitmap: the blocks the last call freed, in order
    transferred,    \* SpecBitmap: palettes handed over by TransferOwnership
    seen            \* the last error the last accessor call found on entry

tableVars ==
    <<instances, blend_tables, heap, mem, result, ub, oom, teardowns>>
lutVars == <<arg, out>>
threadVars == <<pc, reg, held, ret, builds>>
bitmapVars == <<objs, last_error, last, freed, transferred, seen>>
restVars == <<lutVars, bitmapVars>>
vars == <<tableVars, lutVars, threadVars, bitmapVars>>

-----------------------------------------------------------------------------
(* Bounds *)

MaxInstances == 3       \* Activate is not called with instances at this cap
MaxAddr == 14           \* addresses the allocator can hand out
MaxObjects == 3         \* object blocks the allocator can hand out
MaxTeardowns == 2       \* teardowns are counted up to this number
MaxWidth == 16          \* SpecLayout: widths of 1 .. MaxWidth
MaxHeight == 10         \* SpecLayout: heights of 1 .. MaxHeight
MaxBpp == 32            \* SpecLayout: bits per pixel of 1 .. MaxBpp

-----------------------------------------------------------------------------
(* Constants of the program *)

NULL == 0
BLEND_SIZE == 65536
BLEND_NONE == 0
BLEND_MIX25 == 1
BLEND_MIX50 == 2
BLEND_MIX75 == 3
BLEND_ADD == 4
BLEND_SUB == 5
BLEND_MOD == 6
BLEND_CUSTOM == 7
MAX_BLEND == 8

Slots == BLEND_NONE .. (MAX_BLEND - 1)
Modes == BLEND_MIX25 .. (MAX_BLEND - 1)
Addr == 1 .. MaxAddr
Indet == -1             \* a byte whose value is indeterminate
Levels == {0, 100, 200, 255}
Threads == {1, 2}

-----------------------------------------------------------------------------
(* C arithmetic *)

Shl8(x) == x * 256
Shr1(x) == x \div 2
ToUint8(x) == x % 256
Offset(a, b) == Shl8(a) + b

\* x | y of non-negative ints, for the index (a<<8)|b the tables are read at
RECURSIVE BitOr(_, _)
BitOr(x, y) ==
    IF x = 0 THEN y
    ELSE IF y = 0 THEN x
    ELSE (IF (x % 2 = 1) \/ (y % 2 = 1) THEN 1 ELSE 0)
         + 2 * BitOr(x \div 2, y \div 2)

SetMin(S) == CHOOSE x \in S : \A y \in S : x <= y
SetMax(S) == CHOOSE x \in S : \A y \in S : x >= y

SampleOffsets == {Offset(a, b) : a \in Levels, b \in Levels}
OffsetA(off) == off \div 256
OffsetB(off) == off % 256

-----------------------------------------------------------------------------
(* The per-mode expressions of the build loop, Tables.c lines 52 to 58 *)

BlendMix25(a, b) == (a + b + b) \div 3
BlendMix50(a, b) == Shr1(a + b)
BlendMix75(a, b) == (a + a + b) \div 3
BlendAdd_NoClamp(a, b) == a + b
BlendAdd(a, b) == IF (a + b) > 255 THEN 255 ELSE (a + b)
BlendSub(a, b) == IF (a - b) < 0 THEN 0 ELSE (a - b)
BlendMod(a, b) == (a * b) \div 255
BlendCustom(a, b) == a

\* the byte stored in table c at offset (a<<8)+b
BlendEntry(c, a, b) ==
    ToUint8(CASE c = BLEND_MIX25 -> BlendMix25(a, b)
              [] c = BLEND_MIX50 -> BlendMix50(a, b)
              [] c = BLEND_MIX75 -> BlendMix75(a, b)
              [] c = BLEND_ADD -> BlendAdd(a, b)
              [] c = BLEND_SUB -> BlendSub(a, b)
              [] c = BLEND_MOD -> BlendMod(a, b)
              [] c = BLEND_CUSTOM -> BlendCustom(a, b))

-----------------------------------------------------------------------------
(* The allocator *)

FreeAddrs(h) == {p \in Addr : h[p] = "free"}

\* what malloc (BLEND_SIZE) can return: NULL, or a free block.  The
\* allocator is first fit: the block is the lowest free address, so a freed
\* address is handed out again
Malloc(h) ==
    {NULL} \cup (IF FreeAddrs(h) = {} THEN {} ELSE {SetMin(FreeAddrs(h))})

IndetBlock == [off \in SampleOffsets |-> Indet]

\* an allocation loop that keeps a slot that is not null
RECURSIVE AllocLoop_KeepStale(_, _, _)
AllocLoop_KeepStale(c, t, h) ==
    IF c >= MAX_BLEND THEN {[tables |-> t, heap |-> h, ok |-> TRUE]}
    ELSE IF t[c] # NULL THEN AllocLoop_KeepStale(c + 1, t, h)
    ELSE UNION {
        IF p = NULL
        THEN {[tables |-> [t EXCEPT ![c] = NULL], heap |-> h, ok |-> FALSE]}
        ELSE AllocLoop_KeepStale(c + 1, [t EXCEPT ![c] = p],
                                 [h EXCEPT ![p] = "alloc"])
        : p \in Malloc(h)}

\* the allocation loop of CreateBlendTables from slot c on: every outcome
RECURSIVE AllocLoop(_, _, _)
AllocLoop(c, t, h) ==
    IF c >= MAX_BLEND THEN {[tables |-> t, heap |-> h, ok |-> TRUE]}
    ELSE UNION {
        IF p = NULL
        THEN {[tables |-> [t EXCEPT ![c] = NULL], heap |-> h, ok |-> FALSE]}
        ELSE AllocLoop(c + 1, [t EXCEPT ![c] = p], [h EXCEPT ![p] = "alloc"])
        : p \in Malloc(h)}

\* the build loop: every sampled (a, b), tables written in the order of
\* lines 52 to 58, so that the last store to a block is the one that stays
BuildRows(t, m, rows) ==
    [p \in Addr |->
        IF \E c \in Modes : t[c] = p
        THEN LET c == SetMax({d \in Modes : t[d] = p})
             IN  [off \in SampleOffsets |->
                     IF OffsetA(off) \in rows
                     THEN BlendEntry(c, OffsetA(off), OffsetB(off))
                     ELSE m[p][off]]
        ELSE m[p]]

BuildTables(t, m) == BuildRows(t, m, Levels)

\* a store of the build loop goes through a null pointer or into a block
\* that is not allocated
BuildFault(t, h) == \E c \in Modes : t[c] = NULL \/ h[t[c]] # "alloc"

\* line 35: the call found the tables already built
AlreadyActive_Never(n) == FALSE
AlreadyActive(n) == n > 1

\* the count of teardowns after one more
Counted(n) == IF n < MaxTeardowns THEN n + 1 ELSE n

\* line 71: the call is the one that tears the tables down
LastInstance_Always(n) == TRUE
LastInstance(n) == n = 0

\* the free loop of DeleteBlendTables from slot c on.  free() of a block
\* that is not allocated is undefined: the loop stops there with fault set
RECURSIVE FreeLoop(_, _, _, _)
FreeLoop(c, t, h, m) ==
    IF c >= MAX_BLEND THEN [heap |-> h, mem |-> m, fault |-> FALSE]
    ELSE IF t[c] = NULL THEN FreeLoop(c + 1, t, h, m)
    ELSE IF h[t[c]] = "alloc"
         THEN FreeLoop(c + 1, t, [h EXCEPT ![t[c]] = "free"],
                       [m EXCEPT ![t[c]] = IndetBlock])
         ELSE [heap |-> h, mem |-> m, fault |-> TRUE]

UbOutcomes == {"abort", "corrupt"}

-----------------------------------------------------------------------------
(* Operations of Tables.c *)

SelectBlendTable(mode) == blend_tables[mode]

CreateBlendTables ==
    /\ ub = "none"
    /\ instances < MaxInstances
    /\ instances' = instances + 1
    /\ IF AlreadyActive(instances + 1)
       THEN /\ result' = "true"
            /\ UNCHANGED <<blend_tables, heap, mem, oom>>
       ELSE \E o \in AllocLoop(BLEND_MIX25, blend_tables, heap) :
               /\ blend_tables' = o.tables
               /\ heap' = o.heap
               /\ IF o.ok
                  THEN /\ mem' = BuildTables(o.tables, mem)
                       /\ result' = "true"
                       /\ oom' = oom
                  ELSE /\ mem' = mem
                       /\ result' = "false"
                       /\ oom' = TRUE
    /\ UNCHANGED <<ub, teardowns, lutVars, threadVars, bitmapVars>>

DeleteBlendTables ==
    /\ ub = "none"
    /\ LET n == IF instances > 0 THEN instances - 1 ELSE instances
       IN  /\ instances' = n
           /\ IF ~LastInstance(n)
              THEN UNCHANGED <<heap, mem, ub, teardowns>>
              ELSE LET f == FreeLoop(BLEND_MIX25, blend_tables, heap, mem)
                   IN  /\ heap' = f.heap
                       /\ mem' = f.mem
                       /\ IF f.fault THEN ub' \in UbOutcomes ELSE ub' = ub
                       /\ teardowns' = Counted(teardowns)
    /\ result' = "void"
    /\ UNCHANGED <<blend_tables, oom, lutVars, threadVars, bitmapVars>>

-----------------------------------------------------------------------------
(* The body of the build loop for one (a, b), lines 51 to 58 *)

NoEntry == [offset |-> -1, val |-> [c \in Modes |-> Indet]]
NoArg == [a |-> 0, b |-> 0]

BuildEntry ==
    /\ out = NoEntry
    /\ out' = [offset |-> Offset(arg.a, arg.b),
               val |-> [c \in Modes |-> BlendEntry(c, arg.a, arg.b)]]
    /\ UNCHANGED <<tableVars, arg, threadVars, bitmapVars>>

-----------------------------------------------------------------------------
(* The object blocks behind the bitmap and palette handles *)

ObjId == 1 .. MaxObjects
OT_NONE == "OT_NONE"
OT_BITMAP == "OT_BITMAP"
OT_PALETTE == "OT_PALETTE"

TLN_ERR_OK == "TLN_ERR_OK"
TLN_ERR_OUT_OF_MEMORY == "TLN_ERR_OUT_OF_MEMORY"
TLN_ERR_REF_BITMAP == "TLN_ERR_REF_BITMAP"
TLN_ERR_REF_PALETTE == "TLN_ERR_REF_PALETTE"
TLN_ERR_WRONG_SIZE == "TLN_ERR_WRONG_SIZE"

\* the (width, height, bpp) CreateBitmap is called with
CreateArgs == {<<3, 2, 8>>}

\* a block that is not allocated
FreeObj ==
    [live |-> FALSE, type |-> OT_NONE, owner |-> FALSE, width |-> 0,
     height |-> 0, bpp |-> 0, pitch |-> 0, palette |-> NULL, pixels |-> <<>>]

\* x & ~0x03 of a non-negative int
AndNot3(x) == x - (x % 4)
Shr3(x) == x \div 8

\* line 59
Pitch_NoAlign(width, bpp) == Shr3(width * bpp)
Pitch(width, bpp) == AndNot3(Shr3(width * bpp) + 3)

\* line 60: the bytes asked for after the struct Bitmap
PixelBytes(pitch, height) == pitch * height

Zeros(n) == [i \in 1 .. n |-> 0]

LiveIds(os) == {o \in ObjId : os[o].live}
Refs(os) == {NULL} \cup LiveIds(os)

\* Object.c, CreateBaseObject: a zero-initialised block stamped with its
\* type, or NULL.  The block is the lowest free address (first fit)
CreateBaseObject(os) ==
    {NULL} \cup (IF ObjId \ LiveIds(os) = {} THEN {}
                 ELSE {SetMin(ObjId \ LiveIds(os))})

NewObject(type) == [FreeObj EXCEPT !.live = TRUE, !.type = type]

\* Object.c, CloneBaseObject: a new block that is a byte-for-byte copy of
\* the source block, or NULL
CloneBaseObject(os) == CreateBaseObject(os)
CopyOf(o) == o

\* Object.c, CheckBaseObject: the reference is not null and carries the tag
CheckBaseObject(os, ref, type) == ref # NULL /\ os[ref].type = type

\* Object.h, ObjectOwner
ObjectOwner(o) == o.owner

\* Object.c, DeleteBaseObject: frees the block; a null reference is left
\* alone, and a block that is not allocated is an invalid free
DeleteBaseObject(os, ref, log) ==
    IF ref = NULL THEN [objs |-> os, freed |-> log, fault |-> FALSE]
    ELSE IF os[ref].live
         THEN [objs |-> [os EXCEPT ![ref] = FreeObj],
               freed |-> Append(log, ref), fault |-> FALSE]
         ELSE [objs |-> os, freed |-> log, fault |-> TRUE]

Call(op, a1, value) == [op |-> op, a1 |-> a1, ret |-> value]

\* a call that takes a bitmap and the coordinates (x, y) and yields a pointer:
\* value is the block the pointer points into, off the byte offset from
\* its pixel storage
PtrCall(op, a1, x, y, value, off) ==
    [op |-> op, a1 |-> a1, x |-> x, y |-> y, ret |-> value, off |-> off]

\* the coordinates TLN_GetBitmapPtr is called with, and those a caller
\* writes at
PtrArgs ==
    {<<0, 0>>, <<2, 1>>, <<3, 0>>, <<0, 2>>, <<3, 2>>, <<-1, 0>>, <<0, -1>>}
WriteArgs == {<<0, 0>>, <<2, 1>>}
Ink == 255

\* line 170
OutOfRange_OffByOne(o, x, y) == x > o.width \/ y > o.height
OutOfRange(o, x, y) == x >= o.width \/ y >= o.height

\* Bitmap.h, get_bitmap_ptr: row y, byte x*bpp/8 of the row
get_bitmap_ptr(o, x, y) == y * o.pitch + Shr3(x * o.bpp)

\* lines 164 to 178 with the range test ahead of the type test
GetBitmapPtr_RangeFirst(os, bitmap, x, y) ==
    IF bitmap # NULL /\ OutOfRange(os[bitmap], x, y)
    THEN [error |-> TLN_ERR_WRONG_SIZE, obj |-> NULL, off |-> 0]
    ELSE IF ~CheckBaseObject(os, bitmap, OT_BITMAP)
    THEN [error |-> TLN_ERR_REF_BITMAP, obj |-> NULL, off |-> 0]
    ELSE [error |-> TLN_ERR_OK, obj |-> bitmap,
          off |-> get_bitmap_ptr(os[bitmap], x, y)]

\* lines 164 to 178: the error set and the pointer returned
GetBitmapPtr(os, bitmap, x, y) ==
    IF ~CheckBaseObject(os, bitmap, OT_BITMAP)
    THEN [error |-> TLN_ERR_REF_BITMAP, obj |-> NULL, off |-> 0]
    ELSE IF OutOfRange(os[bitmap], x, y)
    THEN [error |-> TLN_ERR_WRONG_SIZE, obj |-> NULL, off |-> 0]
    ELSE [error |-> TLN_ERR_OK, obj |-> bitmap,
          off |-> get_bitmap_ptr(os[bitmap], x, y)]

\* line 234
AssignPalette_TakesOwnership(o, palette) ==
    [o EXCEPT !.palette = palette, !.owner = TRUE]
AssignPalette(o, palette) == [o EXCEPT !.palette = palette]

-----------------------------------------------------------------------------
(* Operations of Bitmap.c *)

TLN_CreateBitmap ==
    /\ ub = "none"
    /\ \E d \in CreateArgs, bitmap \in CreateBaseObject(objs) :
          LET width == d[1]
              height == d[2]
              bpp == d[3]
              pitch == Pitch(width, bpp)
          IN  /\ IF bitmap # NULL
                 THEN /\ objs' = [objs EXCEPT ![bitmap] =
                             [NewObject(OT_BITMAP) EXCEPT
                                 !.width = width, !.height = height,
                                 !.bpp = bpp, !.pitch = pitch,
                                 !.pixels = Zeros(PixelBytes(pitch, height))]]
                      /\ last_error' = TLN_ERR_OK
                 ELSE /\ objs' = objs
                      /\ last_error' = TLN_ERR_OUT_OF_MEMORY
              /\ last' = Call("TLN_CreateBitmap", NULL, bitmap)
    /\ freed' = <<>>
    /\ transferred' = transferred
    /\ UNCHANGED <<tableVars, lutVars, threadVars, seen>>

\* lines 91 to 112 with src returned at line 105
TLN_CloneBitmap_ReturnsSrc ==
    /\ ub = "none"
    /\ \E src \in Refs(objs) :
          IF ~CheckBaseObject(objs, src, OT_BITMAP)
          THEN /\ last_error' = TLN_ERR_REF_BITMAP
               /\ last' = Call("TLN_CloneBitmap", src, NULL)
               /\ objs' = objs
          ELSE \E bitmap \in CloneBaseObject(objs) :
                  IF bitmap # NULL
                  THEN /\ objs' = [objs EXCEPT ![bitmap] = CopyOf(objs[src])]
                       /\ last_error' = TLN_ERR_OK
                       /\ last' = Call("TLN_CloneBitmap", src, src)
                  ELSE /\ objs' = objs
                       /\ last_error' = TLN_ERR_OUT_OF_MEMORY
                       /\ last' = Call("TLN_CloneBitmap", src, NULL)
    /\ freed' = <<>>
    /\ transferred' = transferred
    /\ UNCHANGED <<tableVars, lutVars, threadVars, seen>>

TLN_CloneBitmap ==
    /\ ub = "none"
    /\ \E src \in Refs(objs) :
          IF ~CheckBaseObject(objs, src, OT_BITMAP)
          THEN /\ last_error' = TLN_ERR_REF_BITMAP
               /\ last' = Call("TLN_CloneBitmap", src, NULL)
               /\ objs' = objs
          ELSE \E bitmap \in CloneBaseObject(objs) :
                  /\ IF bitmap # NULL
                     THEN /\ objs' = [objs EXCEPT ![bitmap] = CopyOf(objs[src])]
                          /\ last_error' = TLN_ERR_OK
                     ELSE /\ objs' = objs
                          /\ last_error' = TLN_ERR_OUT_OF_MEMORY
                  /\ last' = Call("TLN_CloneBitmap", src, bitmap)
    /\ freed' = <<>>
    /\ transferred' = transferred
    /\ UNCHANGED <<tableVars, lutVars, threadVars, seen>>

\* line 128: the palette goes with the bitmap
DeletesPalette_Always(o) == TRUE
DeletesPalette(o) == ObjectOwner(o)

TLN_DeleteBitmap ==
    /\ ub = "none"
    /\ \E bitmap \in Refs(objs) :
          IF CheckBaseObject(objs, bitmap, OT_BITMAP)
          THEN LET d1 == IF DeletesPalette(objs[bitmap])
                         THEN DeleteBaseObject(objs, objs[bitmap].palette, <<>>)
                         ELSE [objs |-> objs, freed |-> <<>>, fault |-> FALSE]
                   d2 == IF d1.fault THEN d1
                         ELSE DeleteBaseObject(d1.objs, bitmap, d1.freed)
               IN  /\ objs' = d2.objs
                   /\ freed' = d2.freed
                   /\ transferred' = transferred \cap LiveIds(d2.objs)
                   /\ IF d2.fault
                      THEN /\ ub' \in UbOutcomes
                           /\ UNCHANGED <<last_error, last>>
                      ELSE /\ ub' = ub
                           /\ last_error' = TLN_ERR_OK
                           /\ last' = Call("TLN_DeleteBitmap", bitmap, 1)
          ELSE /\ last_error' = TLN_ERR_REF_BITMAP
               /\ last' = Call("TLN_DeleteBitmap", bitmap, 0)
               /\ freed' = <<>>
               /\ UNCHANGED <<objs, ub, transferred>>
    /\ UNCHANGED <<instances, blend_tables, heap, mem, result, oom, teardowns,
                   lutVars, threadVars, seen>>

TLN_SetBitmapPalette ==
    /\ ub = "none"
    /\ \E bitmap \in Refs(objs), palette \in Refs(objs) :
          /\ IF ~CheckBaseObject(objs, bitmap, OT_BITMAP)
             THEN /\ last_error' = TLN_ERR_REF_BITMAP
                  /\ last' = Call("TLN_SetBitmapPalette", bitmap, 0)
                  /\ objs' = objs
             ELSE IF ~CheckBaseObject(objs, palette, OT_PALETTE)
             THEN /\ last_error' = TLN_ERR_REF_PALETTE
                  /\ last' = Call("TLN_SetBitmapPalette", bitmap, 0)
                  /\ objs' = objs
             ELSE /\ objs' = [objs EXCEPT ![bitmap] = AssignPalette(@, palette)]
                  /\ last_error' = TLN_ERR_OK
                  /\ last' = Call("TLN_SetBitmapPalette", bitmap, 1)
    /\ freed' = <<>>
    /\ transferred' = transferred
    /\ UNCHANGED <<tableVars, lutVars, threadVars, seen>>

TLN_GetBitmapPtr ==
    /\ ub = "none"
    /\ \E bitmap \in Refs(objs), c \in PtrArgs :
          LET r == GetBitmapPtr(objs, bitmap, c[1], c[2])
          IN  /\ last_error' = r.error
              /\ last' = PtrCall("TLN_GetBitmapPtr", bitmap, c[1], c[2],
                                 r.obj, r.off)
    /\ freed' = <<>>
    /\ seen' = last_error
    /\ UNCHANGED <<objs, transferred, tableVars, lutVars, threadVars>>

TLN_GetBitmapPalette ==
    /\ ub = "none"
    /\ \E bitmap \in Refs(objs) :
          IF CheckBaseObject(objs, bitmap, OT_BITMAP)
          THEN /\ last_error' = TLN_ERR_OK
               /\ last' = Call("TLN_GetBitmapPalette", bitmap,
                               objs[bitmap].palette)
          ELSE /\ last_error' = TLN_ERR_REF_BITMAP
               /\ last' = Call("TLN_GetBitmapPalette", bitmap, NULL)
    /\ freed' = <<>>
    /\ seen' = last_error
    /\ UNCHANGED <<objs, transferred, tableVars, lutVars, threadVars>>

TLN_GetBitmapWidth ==
    /\ ub = "none"
    /\ \E bitmap \in Refs(objs) :
          IF CheckBaseObject(objs, bitmap, OT_BITMAP)
          THEN /\ last_error' = TLN_ERR_OK
               /\ last' = Call("TLN_GetBitmapWidth", bitmap, objs[bitmap].width)
          ELSE /\ last_error' = TLN_ERR_REF_BITMAP
               /\ last' = Call("TLN_GetBitmapWidth", bitmap, 0)
    /\ freed' = <<>>
    /\ seen' = last_error
    /\ UNCHANGED <<objs, transferred, tableVars, lutVars, threadVars>>

TLN_GetBitmapHeight ==
    /\ ub = "none"
    /\ \E bitmap \in Refs(objs) :
          IF CheckBaseObject(objs, bitmap, OT_BITMAP)
          THEN /\ last_error' = TLN_ERR_OK
               /\ last' = Call("TLN_GetBitmapHeight", bitmap,
                               objs[bitmap].height)
          ELSE /\ last_error' = TLN_ERR_REF_BITMAP
               /\ last' = Call("TLN_GetBitmapHeight", bitmap, 0)
    /\ freed' = <<>>
    /\ seen' = last_error
    /\ UNCHANGED <<objs, transferred, tableVars, lutVars, threadVars>>

TLN_GetBitmapDepth ==
    /\ ub = "none"
    /\ \E bitmap \in Refs(objs) :
          IF CheckBaseObject(objs, bitmap, OT_BITMAP)
          THEN /\ last_error' = TLN_ERR_OK
               /\ last' = Call("TLN_GetBitmapDepth", bitmap, objs[bitmap].bpp)
          ELSE /\ last_error' = TLN_ERR_REF_BITMAP
               /\ last' = Call("TLN_GetBitmapDepth", bitmap, 0)
    /\ freed' = <<>>
    /\ seen' = last_error
    /\ UNCHANGED <<objs, transferred, tableVars, lutVars, threadVars>>

\* lines 309 to 321 without line 313
TLN_GetBitmapPitch_KeepsError ==
    /\ ub = "none"
    /\ \E bitmap \in Refs(objs) :
          IF CheckBaseObject(objs, bitmap, OT_BITMAP)
          THEN /\ last_error' = last_error
               /\ last' = Call("TLN_GetBitmapPitch", bitmap, objs[bitmap].pitch)
          ELSE /\ last_error' = TLN_ERR_REF_BITMAP
               /\ last' = Call("TLN_GetBitmapPitch", bitmap, 0)
    /\ freed' = <<>>
    /\ seen' = last_error
    /\ UNCHANGED <<objs, transferred, tableVars, lutVars, threadVars>>

TLN_GetBitmapPitch ==
    /\ ub = "none"
    /\ \E bitmap \in Refs(objs) :
          IF CheckBaseObject(objs, bitmap, OT_BITMAP)
          THEN /\ last_error' = TLN_ERR_OK
               /\ last' = Call("TLN_GetBitmapPitch", bitmap, objs[bitmap].pitch)
          ELSE /\ last_error' = TLN_ERR_REF_BITMAP
               /\ last' = Call("TLN_GetBitmapPitch", bitmap, 0)
    /\ freed' = <<>>
    /\ seen' = last_error
    /\ UNCHANGED <<objs, transferred, tableVars, lutVars, threadVars>>

-----------------------------------------------------------------------------
(* The callers of Bitmap.c *)

\* a caller that takes the pointer to (x, y) and stores a byte through it;
\* a store outside the pixel storage is undefined
WritePixel ==
    /\ ub = "none"
    /\ \E bitmap \in Refs(objs), c \in WriteArgs :
          LET r == GetBitmapPtr(objs, bitmap, c[1], c[2])
          IN  /\ last_error' = r.error
              /\ last' = PtrCall("WritePixel", bitmap, c[1], c[2], r.obj, r.off)
              /\ IF r.obj = NULL
                 THEN UNCHANGED <<objs, ub>>
                 ELSE IF r.off \in 0 .. Len(objs[r.obj].pixels) - 1
                 THEN /\ objs' = [objs EXCEPT
                                     ![r.obj].pixels[r.off + 1] = Ink]
                      /\ ub' = ub
                 ELSE /\ objs' = objs
                      /\ ub' \in UbOutcomes
    /\ freed' = <<>>
    /\ seen' = last_error
    /\ UNCHANGED <<instances, blend_tables, heap, mem, result, oom, teardowns,
                   transferred, lutVars, threadVars>>

\* a palette of the caller's: CreateBaseObject with the palette tag
CreatePalette ==
    /\ ub = "none"
    /\ \E palette \in CreateBaseObject(objs) :
          /\ IF palette # NULL
             THEN /\ objs' = [objs EXCEPT ![palette] = NewObject(OT_PALETTE)]
                  /\ last_error' = TLN_ERR_OK
             ELSE /\ objs' = objs
                  /\ last_error' = TLN_ERR_OUT_OF_MEMORY
          /\ last' = Call("CreatePalette", NULL, palette)
    /\ freed' = <<>>
    /\ transferred' = transferred
    /\ UNCHANGED <<tableVars, lutVars, threadVars, seen>>

\* the ownership-transfer path: the bitmap is made the owner of the palette
\* it is associated with, which no other bitmap refers to
TransferOwnership ==
    /\ ub = "none"
    /\ \E bitmap \in LiveIds(objs) :
          /\ objs[bitmap].type = OT_BITMAP
          /\ ~objs[bitmap].owner
          /\ CheckBaseObject(objs, objs[bitmap].palette, OT_PALETTE)
          /\ \A other \in LiveIds(objs) \ {bitmap} :
                objs[other].palette # objs[bitmap].palette
          /\ objs' = [objs EXCEPT ![bitmap].owner = TRUE]
          /\ last' = Call("TransferOwnership", bitmap, 1)
          /\ transferred' = transferred \cup {objs[bitmap].palette}
    /\ freed' = <<>>
    /\ UNCHANGED <<tableVars, lutVars, threadVars, last_error, seen>>

-----------------------------------------------------------------------------
(* Specifications *)

InitTables ==
    /\ instances = 0
    /\ blend_tables = [c \in Slots |-> NULL]
    /\ heap = [p \in Addr |-> "free"]
    /\ mem = [p \in Addr |-> IndetBlock]
    /\ result = "none"
    /\ ub = "none"
    /\ oom = FALSE
    /\ teardowns = 0

InitIdle ==
    /\ pc = [t \in Threads |-> "idle"]
    /\ reg = [t \in Threads |-> 0]
    /\ held = [t \in Threads |-> FALSE]
    /\ ret = [t \in Threads |-> "none"]
    /\ builds = 0

InitBitmap ==
    /\ objs = [o \in ObjId |-> FreeObj]
    /\ last_error = TLN_ERR_OK
    /\ last = Call("none", NULL, NULL)
    /\ freed = <<>>
    /\ transferred = {}
    /\ seen = TLN_ERR_OK

Init ==
    /\ InitTables
    /\ InitIdle
    /\ InitBitmap
    /\ arg = NoArg
    /\ out = NoEntry

Next ==
    \/ CreateBlendTables
    \/ DeleteBlendTables

Spec == Init /\ [][Next]_vars

InitLut ==
    /\ InitTables
    /\ InitIdle
    /\ InitBitmap
    /\ arg \in [a : 0 .. 255, b : 0 .. 255]
    /\ out = NoEntry

NextLut == BuildEntry

SpecLut == InitLut /\ [][NextLut]_vars

-----------------------------------------------------------------------------
(* The steps of CreateBlendTables and DeleteBlendTables when two threads   *)
(* call them.  Nothing guards instances or _blend_tables: a thread reads   *)
(* instances, stores it, tests it, allocates, builds and frees in steps    *)
(* of its own.  A thread calls Delete only for an Activate of its own that *)
(* returned true.  Allocation failure is followed in Spec, not here.       *)

\* a run is followed up to its first failed allocation or invalid access
Running == ub = "none" /\ ~oom

LowRows == {a \in Levels : a < 128}
HighRows == {a \in Levels : a >= 128}

Return(t, value, holds) ==
    /\ pc' = [pc EXCEPT ![t] = "idle"]
    /\ ret' = [ret EXCEPT ![t] = value]
    /\ held' = [held EXCEPT ![t] = holds]

Goto(t, label) ==
    /\ pc' = [pc EXCEPT ![t] = label]
    /\ UNCHANGED <<ret, held>>

\* line 34, the load of instances += 1
T_CreateLoad(t) ==
    /\ Running
    /\ pc[t] = "idle"
    /\ ~held[t]
    /\ instances < MaxInstances
    /\ reg' = [reg EXCEPT ![t] = instances]
    /\ Goto(t, "c_store")
    /\ UNCHANGED <<tableVars, restVars, builds>>

\* line 34, the store of instances += 1
T_CreateStore(t) ==
    /\ Running
    /\ pc[t] = "c_store"
    /\ instances' = reg[t] + 1
    /\ reg' = [reg EXCEPT ![t] = reg[t] + 1]
    /\ Goto(t, "c_test")
    /\ UNCHANGED <<blend_tables, heap, mem, result, ub, oom, teardowns,
                   restVars, builds>>

\* lines 35 and 36: the test sees the value the thread stored, or the value
\* in memory now
T_CreateTest(t) ==
    /\ Running
    /\ pc[t] = "c_test"
    /\ \E v \in {reg[t], instances} :
          IF AlreadyActive(v)
          THEN Return(t, "true", TRUE)
          ELSE Goto(t, "c_alloc")
    /\ UNCHANGED <<tableVars, restVars, reg, builds>>

\* lines 39 to 44
T_CreateAlloc(t) ==
    /\ Running
    /\ pc[t] = "c_alloc"
    /\ \E o \in AllocLoop(BLEND_MIX25, blend_tables, heap) :
          /\ blend_tables' = o.tables
          /\ heap' = o.heap
          /\ IF o.ok
             THEN /\ Goto(t, "c_build")
                  /\ oom' = oom
             ELSE /\ Return(t, "false", FALSE)
                  /\ oom' = TRUE
    /\ UNCHANGED <<instances, mem, result, ub, teardowns, restVars, reg,
                   builds>>

\* lines 47 to 60, the rows a < 128
T_BuildLow(t) ==
    /\ Running
    /\ pc[t] = "c_build"
    /\ IF BuildFault(blend_tables, heap)
       THEN /\ ub' \in UbOutcomes
            /\ mem' = mem
       ELSE /\ ub' = ub
            /\ mem' = BuildRows(blend_tables, mem, LowRows)
    /\ Goto(t, "c_build2")
    /\ UNCHANGED <<instances, blend_tables, heap, result, oom, teardowns,
                   restVars, reg, builds>>

\* lines 47 to 61, the rows a >= 128 and the return
T_BuildHigh(t) ==
    /\ Running
    /\ pc[t] = "c_build2"
    /\ IF BuildFault(blend_tables, heap)
       THEN /\ ub' \in UbOutcomes
            /\ mem' = mem
       ELSE /\ ub' = ub
            /\ mem' = BuildRows(blend_tables, mem, HighRows)
    /\ builds' = IF builds < 2 THEN builds + 1 ELSE builds
    /\ Return(t, "true", TRUE)
    /\ UNCHANGED <<instances, blend_tables, heap, result, oom, teardowns,
                   restVars, reg>>

\* line 69, the load of instances
T_DeleteLoad(t) ==
    /\ Running
    /\ pc[t] = "idle"
    /\ held[t]
    /\ reg' = [reg EXCEPT ![t] = instances]
    /\ Goto(t, "d_store")
    /\ UNCHANGED <<tableVars, restVars, builds>>

\* lines 69 and 70, the test and the store of instances -= 1
T_DeleteStore(t) ==
    /\ Running
    /\ pc[t] = "d_store"
    /\ LET n == IF reg[t] > 0 THEN reg[t] - 1 ELSE reg[t]
       IN  /\ instances' = IF reg[t] > 0 THEN n ELSE instances
           /\ reg' = [reg EXCEPT ![t] = n]
    /\ Goto(t, "d_test")
    /\ UNCHANGED <<blend_tables, heap, mem, result, ub, oom, teardowns,
                   restVars, builds>>

\* lines 71 and 72
T_DeleteTest(t) ==
    /\ Running
    /\ pc[t] = "d_test"
    /\ \E v \in {reg[t], instances} :
          IF ~LastInstance(v)
          THEN Return(t, "void", FALSE)
          ELSE Goto(t, "d_free")
    /\ UNCHANGED <<tableVars, restVars, reg, builds>>

\* lines 74 to 78
T_DeleteFree(t) ==
    /\ Running
    /\ pc[t] = "d_free"
    /\ LET f == FreeLoop(BLEND_MIX25, blend_tables, heap, mem)
       IN  /\ heap' = f.heap
           /\ mem' = f.mem
           /\ IF f.fault THEN ub' \in UbOutcomes ELSE ub' = ub
    /\ builds' = 0
    /\ teardowns' = Counted(teardowns)
    /\ Return(t, "void", FALSE)
    /\ UNCHANGED <<instances, blend_tables, result, oom, restVars, reg>>

NextThreads ==
    \E t \in Threads :
        \/ T_CreateLoad(t)
        \/ T_CreateStore(t)
        \/ T_CreateTest(t)
        \/ T_CreateAlloc(t)
        \/ T_BuildLow(t)
        \/ T_BuildHigh(t)
        \/ T_DeleteLoad(t)
        \/ T_DeleteStore(t)
        \/ T_DeleteTest(t)
        \/ T_DeleteFree(t)

SpecThreads == Init /\ [][NextThreads]_vars

NextBitmap ==
    \/ TLN_CreateBitmap
    \/ TLN_CloneBitmap
    \/ TLN_DeleteBitmap
    \/ TLN_SetBitmapPalette
    \/ CreatePalette
    \/ TransferOwnership

SpecBitmap == Init /\ [][NextBitmap]_vars

\* every operation of Bitmap.c, on bitmaps and on palettes of the caller's
NextAccess ==
    \/ TLN_CreateBitmap
    \/ TLN_CloneBitmap
    \/ TLN_DeleteBitmap
    \/ TLN_GetBitmapPtr
    \/ TLN_GetBitmapPalette
    \/ TLN_SetBitmapPalette
    \/ TLN_GetBitmapWidth
    \/ TLN_GetBitmapHeight
    \/ TLN_GetBitmapDepth
    \/ TLN_GetBitmapPitch
    \/ CreatePalette

SpecAccess == Init /\ [][NextAccess]_vars

\* bitmaps, their clones and the callers that write their pixels
NextPixels ==
    \/ TLN_CreateBitmap
    \/ TLN_CloneBitmap
    \/ TLN_DeleteBitmap
    \/ TLN_GetBitmapPtr
    \/ WritePixel

SpecPixels == Init /\ [][NextPixels]_vars

\* lines 59 and 60 and get_bitmap_ptr for one (width, height, bpp) and one
\* pixel (x, y) of the bitmap
NoLayout == [pitch |-> -1, bytes |-> -1, off |-> -1]

BitmapLayout ==
    /\ out = NoLayout
    /\ LET pitch == Pitch(arg.width, arg.bpp)
       IN  out' = [pitch |-> pitch,
                   bytes |-> PixelBytes(pitch, arg.height),
                   off |-> get_bitmap_ptr([pitch |-> pitch, bpp |-> arg.bpp],
                                          arg.x, arg.y)]
    /\ UNCHANGED <<tableVars, arg, threadVars, bitmapVars>>

InitLayout ==
    /\ InitTables
    /\ InitIdle
    /\ InitBitmap
    /\ arg \in {a \in [width : 1 .. MaxWidth, height : 1 .. MaxHeight,
                        bpp : 1 .. MaxBpp, x : 0 .. MaxWidth - 1,
                        y : 0 .. MaxHeight - 1] :
                    a.x < a.width /\ a.y < a.height}
    /\ out = NoLayout

NextLayout == BitmapLayout

SpecLayout == InitLayout /\ [][NextLayout]_vars

-----------------------------------------------------------------------------
(* The reference formulas of the blend modes, in integer arithmetic *)

RefMin(x, y) == IF x <= y THEN x ELSE y
RefMax(x, y) == IF x >= y THEN x ELSE y

RefBlend(c, a, b) ==
    CASE c = BLEND_MIX25 -> (a + 2 * b) \div 3
      [] c = BLEND_MIX50 -> (a + b) \div 2
      [] c = BLEND_MIX75 -> (2 * a + b) \div 3
      [] c = BLEND_ADD -> RefMin(a + b, 255)
      [] c = BLEND_SUB -> RefMax(a - b, 0)
      [] c = BLEND_MOD -> (a * b) \div 255
      [] c = BLEND_CUSTOM -> a

\* slot c holds a non-null pointer to an allocated block that holds the
\* reference table of mode c
Populated(c) ==
    /\ SelectBlendTable(c) # NULL
    /\ heap[SelectBlendTable(c)] = "alloc"
    /\ \A off \in SampleOffsets :
          mem[SelectBlendTable(c)][off] =
             RefBlend(c, OffsetA(off), OffsetB(off))

AllPopulated == \A c \in Modes : Populated(c)
NoneAllocated == \A p \in Addr : heap[p] = "free"
AllNull == \A c \in Slots : blend_tables[c] = NULL

-----------------------------------------------------------------------------
(* Claims *)

\* C1: while every allocation has succeeded, instances > 0 exactly when every
\* blend mode slot holds a non-null, allocated, fully populated table, and
\* with instances = 0 no table is allocated and every slot is null.
C1_TablesExistIffActive ==
    ~oom =>
        /\ (instances > 0) <=> AllPopulated
        /\ (instances = 0) => (NoneAllocated /\ AllNull)

\* C2: in a run whose allocations succeed every Activate leaves the tables
\* populated; a Deactivate that leaves the count above zero leaves every
\* pointer, block and table entry as it was, and the Deactivate that takes
\* the count from 1 to 0 frees every table, each exactly once.
C2_LastDeactivateFrees ==
    [][/\ (instances' = instances + 1 /\ ~oom') => AllPopulated'
       /\ (instances >= 2 /\ instances' = instances - 1) =>
             /\ blend_tables' = blend_tables
             /\ heap' = heap
             /\ mem' = mem
             /\ (AllPopulated => AllPopulated')
       /\ (instances = 1 /\ instances' = 0 /\ AllPopulated) =>
             /\ \A c \in Modes : heap'[blend_tables[c]] = "free"
             /\ ub' = "none"]_vars

C2_Witness ==
    /\ instances = 1
    /\ result = "void"
    /\ AllPopulated

\* C3: a Deactivate with instances = 0 leaves instances at 0 and frees
\* nothing, and no table buffer is ever passed to free() twice.
C3_DeactivateInactiveIsNoOp ==
    [][/\ (instances = 0 /\ instances' = 0) => heap' = heap
       /\ ub' = "none"]_vars

\* C4: an Activate that returns false leaves instances at 0 and no buffer
\* allocated, and an Activate that returns true leaves every table
\* allocated and fully populated.
C4_FailedActivateRollsBack ==
    /\ (result = "false") => (instances = 0 /\ NoneAllocated)
    /\ (result = "true") => AllPopulated

\* C5: an Activate with instances >= 1 adds one to instances and returns
\* true, and leaves every table pointer, block and table entry as it was.
C5_ActivateWhenActiveOnlyCounts ==
    [][(instances >= 1 /\ instances' = instances + 1) =>
          /\ result' = "true"
          /\ blend_tables' = blend_tables
          /\ heap' = heap
          /\ mem' = mem]_vars

C5_Witness ==
    /\ instances >= 2
    /\ result = "true"
    /\ AllPopulated

\* C6: the loop body stores, at offset (a<<8)|b of each table, the reference
\* formula of its mode, a value of 0..255; ADD at a = 200, b = 100 is 255.
C6_EntriesMatchFormulas ==
    (out # NoEntry) =>
        /\ out.offset = BitOr(Shl8(arg.a), arg.b)
        /\ \A c \in Modes :
              /\ out.val[c] = RefBlend(c, arg.a, arg.b)
              /\ out.val[c] \in 0 .. 255
        /\ (arg.a = 200 /\ arg.b = 100) => out.val[BLEND_ADD] = 255

C6_Witness ==
    /\ out # NoEntry
    /\ arg.a = 200
    /\ arg.b = 100
    /\ out.offset = 51300
    /\ out.val[BLEND_ADD] = 255

\* C7: with two threads and every allocation succeeding, whenever both are
\* between calls instances is the number of Activates that returned true
\* and have not been matched by a Deactivate, the tables are built at most
\* once between two teardowns, and a thread whose Activate returned true
\* finds every table allocated and fully populated.
C7_ConcurrentAccounting ==
    (~oom /\ ub = "none") =>
        /\ (\A t \in Threads : pc[t] = "idle") =>
              instances = Cardinality({t \in Threads : held[t]})
        /\ builds <= 1
        /\ \A t \in Threads :
              (pc[t] = "idle" /\ held[t] /\ ret[t] = "true") => AllPopulated

\* a step in which TLN_DeleteBitmap (b) returned true
DeleteStep(b) ==
    /\ objs[b].live
    /\ objs[b].type = OT_BITMAP
    /\ ~objs'[b].live
    /\ last' = Call("TLN_DeleteBitmap", b, 1)

\* C8: DeleteBitmap on a bitmap whose owner flag is set frees its palette
\* first and the bitmap second; on a bitmap whose owner flag is clear it
\* frees the bitmap alone and leaves the palette and every other object as
\* they were.
C8_DeleteCascadesIffOwner ==
    [][\A b \in ObjId :
          DeleteStep(b) =>
             LET p == objs[b].palette
             IN  IF objs[b].owner
                 THEN CheckBaseObject(objs, p, OT_PALETTE) =>
                         /\ freed' = <<p, b>>
                         /\ ~objs'[p].live
                 ELSE /\ freed' = <<b>>
                      /\ \A o \in ObjId \ {b} : objs'[o] = objs[o]
                      /\ CheckBaseObject(objs, p, OT_PALETTE) =>
                            CheckBaseObject(objs', p, OT_PALETTE)]_vars

C8_Witness ==
    \E b \in ObjId, p \in ObjId :
        /\ last = Call("TLN_DeleteBitmap", b, 1)
        /\ freed = <<p, b>>
        /\ ~objs[p].live
        /\ ~objs[b].live

\* C9: a palette that reached the bitmap through SetBitmapPalette and was
\* never handed over by an ownership transfer is alive after DeleteBitmap
\* of the bitmap, whatever the bitmap's owner flag is.
C9_SetPaletteStaysShared ==
    [][\A b \in ObjId :
          (/\ DeleteStep(b)
           /\ CheckBaseObject(objs, objs[b].palette, OT_PALETTE)
           /\ objs[objs[b].palette].live
           /\ objs[b].palette \notin transferred)
          => objs'[objs[b].palette].live]_vars

\* C10: no block is freed twice, and DeleteBitmap of a bitmap that shares
\* its palette reference with another live bitmap that owns the palette (a
\* clone and its source) leaves that palette alive.
C10_ClonePaletteShared ==
    [][/\ ub' = "none"
       /\ \A c \in ObjId :
             DeleteStep(c) =>
                \A s \in LiveIds(objs) \ {c} :
                   (/\ objs[s].type = OT_BITMAP
                    /\ objs[s].owner
                    /\ objs[s].palette = objs[c].palette
                    /\ CheckBaseObject(objs, objs[s].palette, OT_PALETTE)
                    /\ objs[objs[s].palette].live)
                   => objs'[objs[s].palette].live]_vars

\* the closed set of last-error codes
ErrorCodes ==
    {TLN_ERR_OK, TLN_ERR_OUT_OF_MEMORY, TLN_ERR_REF_BITMAP,
     TLN_ERR_REF_PALETTE, TLN_ERR_WRONG_SIZE}

\* the calls that return 0 (NULL, false) when they fail and only then
FailsWithZero ==
    {"TLN_CreateBitmap", "TLN_CloneBitmap", "TLN_DeleteBitmap",
     "TLN_SetBitmapPalette", "TLN_GetBitmapPtr"}

Accessors ==
    {"TLN_GetBitmapPalette", "TLN_GetBitmapWidth", "TLN_GetBitmapHeight",
     "TLN_GetBitmapDepth", "TLN_GetBitmapPitch"}

\* the calls whose first argument is a bitmap reference
TakesBitmap == (FailsWithZero \ {"TLN_CreateBitmap"}) \cup Accessors

\* the call of the step returned: last' is the call and what it returned
Returned == ub' = "none"

Ceil8(bits) == (bits + 7) \div 8
Align4(n) == 4 * ((n + 3) \div 4)

SameImage(c, s) ==
    /\ c.width = s.width
    /\ c.height = s.height
    /\ c.bpp = s.bpp
    /\ c.pitch = s.pitch
    /\ c.pixels = s.pixels

C12_PointerRangeCheck ==
    (last.op = "TLN_GetBitmapPtr" /\ CheckBaseObject(objs, last.a1, OT_BITMAP))
    => LET o == objs[last.a1]
           beyond == last.x >= o.width \/ last.y >= o.height
       IN  /\ beyond <=> (last.ret = NULL /\ last_error = TLN_ERR_WRONG_SIZE)
           /\ ~beyond => (last.ret = last.a1 /\ last_error = TLN_ERR_OK)
           /\ (last.x = o.width /\ last.y = 0) => last.ret = NULL
           /\ (last.x = 0 /\ last.y = o.height) => last.ret = NULL
           /\ ((last.x < 0 \/ last.y < 0) /\ ~beyond) => last.ret # NULL

C12_Witness ==
    /\ last.op = "TLN_GetBitmapPtr"
    /\ CheckBaseObject(objs, last.a1, OT_BITMAP)
    /\ last.x = objs[last.a1].width
    /\ last.y = 0
    /\ last.ret = NULL
    /\ last_error = TLN_ERR_WRONG_SIZE

\* C13: for width >= 1, height >= 1 and bpp of 8, 16, 24 or 32 the pitch is
\* a multiple of 4 that is at least ceil(width*bpp/8), and pitch*height
\* bytes of pixel storage are asked for; (10, 10, 8) gives pitch 12 and 120
\* bytes.
C13_PitchAlignedWholeBytes ==
    (out # NoLayout /\ arg.bpp \in {8, 16, 24, 32}) =>
        /\ out.pitch % 4 = 0
        /\ out.pitch >= Ceil8(arg.width * arg.bpp)
        /\ out.bytes = out.pitch * arg.height
        /\ (arg.width = 10 /\ arg.height = 10 /\ arg.bpp = 8) =>
              (out.pitch = 12 /\ out.bytes = 120)

C13_Witness ==
    /\ out # NoLayout
    /\ arg.width = 10
    /\ arg.height = 10
    /\ arg.bpp = 8
    /\ out.pitch = 12
    /\ out.bytes = 120

\* C14: after a call that failed the last error is a code of the closed
\* set other than TLN_ERR_OK: after CreateBlendTables returned false, and
\* after a bitmap call returned the NULL or false it returns on failure.
C14_FailureSetsLastError ==
    /\ (result = "false") => last_error \in ErrorCodes \ {TLN_ERR_OK}
    /\ (last.op \in FailsWithZero /\ last.ret = 0) =>
          last_error \in ErrorCodes \ {TLN_ERR_OK}

\* C15: a bitmap call whose reference is null or carries another tag
\* returns 0 (NULL, false), sets TLN_ERR_REF_BITMAP and changes and frees no
\* object; the accessors and TLN_GetBitmapPtr change no object when they
\* succeed either.
C15_TypeCheckIsPureGuard ==
    [][/\ (/\ Returned
           /\ last'.op \in TakesBitmap
           /\ ~CheckBaseObject(objs, last'.a1, OT_BITMAP)) =>
             /\ last'.ret = 0
             /\ last_error' = TLN_ERR_REF_BITMAP
             /\ objs' = objs
             /\ freed' = <<>>
       /\ (Returned /\ last'.op \in Accessors \cup {"TLN_GetBitmapPtr"}) =>
             objs' = objs]_vars

C15_Witness ==
    \E p \in ObjId :
        /\ objs[p].live
        /\ objs[p].type = OT_PALETTE
        /\ last = PtrCall("TLN_GetBitmapPtr", p, 0, 0, NULL, 0)
        /\ last_error = TLN_ERR_REF_BITMAP

\* C16: for every width >= 1 and bpp >= 1 the pitch is ceil(width*bpp/8)
\* rounded up to a multiple of 4, so it is at least ceil(width*bpp/8) and a
\* multiple of 4.
C16_PitchCoversPartialBytes ==
    (out # NoLayout) =>
        /\ out.pitch = Align4(Ceil8(arg.width * arg.bpp))
        /\ out.pitch >= Ceil8(arg.width * arg.bpp)
        /\ out.pitch % 4 = 0

\* C17: for a bitmap of CreateBitmap(width, height, bpp) and a pixel
\* 0 <= x < width, 0 <= y < height, the byte offset x*bpp/8 is inside the
\* row and the offset y*pitch + x*bpp/8 is inside the pixel storage.
C17_PointerInsideStorage ==
    (out # NoLayout) =>
        /\ (arg.x * arg.bpp) \div 8 < out.pitch
        /\ out.off = arg.y * out.pitch + (arg.x * arg.bpp) \div 8
        /\ out.off < out.pitch * arg.height

\* C18: a SetBitmapPalette that returns true changes the palette field of
\* the bitmap and nothing else: its other fields, every other object (the
\* palette it had included) and the set of allocated blocks stay as they
\* were.  One that returns false changes no object, and its error is
\* TLN_ERR_REF_BITMAP when the bitmap is not one, TLN_ERR_REF_PALETTE else.
C18_SetPaletteOnlyAssociates ==
    [][\A b \in Refs(objs) :
          (Returned /\ last'.op = "TLN_SetBitmapPalette" /\ last'.a1 = b) =>
             IF last'.ret = 1
             THEN /\ CheckBaseObject(objs, b, OT_BITMAP)
                  /\ CheckBaseObject(objs, objs'[b].palette, OT_PALETTE)
                  /\ objs'[b] = [objs[b] EXCEPT !.palette = objs'[b].palette]
                  /\ \A o \in ObjId \ {b} : objs'[o] = objs[o]
                  /\ freed' = <<>>
                  /\ last_error' = TLN_ERR_OK
             ELSE /\ objs' = objs
                  /\ last_error' = IF CheckBaseObject(objs, b, OT_BITMAP)
                                   THEN TLN_ERR_REF_PALETTE
                                   ELSE TLN_ERR_REF_BITMAP]_vars

C18_Witness ==
    \E b \in ObjId, p \in ObjId :
        /\ last = Call("TLN_SetBitmapPalette", b, 1)
        /\ objs[b].owner
        /\ p \in transferred
        /\ CheckBaseObject(objs, p, OT_PALETTE)
        /\ objs[b].palette # p
        /\ CheckBaseObject(objs, objs[b].palette, OT_PALETTE)

\* C19: an Activate from instances = 0 whose allocations succeed leaves
\* instances at 1 with every slot pointing at a block of its own that was
\* free before the call and holds the full table after it, whatever
\* teardowns came before; and while no allocation has failed, instances >= 1
\* means every table is populated.
C19_ReactivateAfterTeardown ==
    [][/\ (instances = 0 /\ instances' = 1 /\ result' = "true") =>
             /\ AllPopulated'
             /\ \A c \in Modes :
                   /\ heap[blend_tables'[c]] = "free"
                   /\ \A d \in Modes \ {c} :
                         blend_tables'[d] # blend_tables'[c]
       /\ (~oom' /\ instances' >= 1) => AllPopulated']_vars

C19_Witness ==
    /\ teardowns >= 2
    /\ ub = "none"
    /\ ~oom
    /\ instances = 1
    /\ result = "true"
    /\ AllPopulated

====
